---- MODULE Spec2Model ----
(***************************************************************************)
(* Deploy-Land/Lambda_function: the status writer (src/writer.py), the     *)
(* post-deploy health validator (src/App_HealthCheck.py) and the status    *)
(* reader (src/reader.py), as state machines over the shared status table. *)
(*                                                                         *)
(* Strings that are percent-encoded or used as table keys are sequences of *)
(* tokens (the empty string is << >>); stage names, states and messages    *)
(* are plain strings.                                                      *)
(***************************************************************************)
EXTENDS Integers, Sequences, FiniteSets, TLC

VARIABLES
    store,        \* the table deploy-land-status: key -> item (attribute -> value)
    DISCORD_URL,  \* writer.py:14, TRUE when the webhook is configured
    SLACK_URL,    \* writer.py:15, TRUE when the webhook is configured
    w,            \* writer invocations: invocation -> locals of lambda_handler
    hv,           \* the health validator's invocation (locals, clock, configuration)
    bedrock,      \* one call of get_bedrock_solution (locals, clock, service calls)
    px,           \* the health validator's handler on a change batch
    rd,           \* one invocation of the reader's lambda_handler
    lu            \* one call of generate_log_url (arguments and result)

vars == <<store, DISCORD_URL, SLACK_URL, w, hv, bedrock, px, rd, lu>>

----------------------------------------------------------------------------
(* Bounds of the model *)

\* event times are drawn from 1..MaxTime
MaxTime == 2

----------------------------------------------------------------------------
(* The status table *)

PK_NAME == "pipelineID"

\* the fixed key of the pointer record
LATEST_EXECUTION == <<"LATEST_EXECUTION">>

ExecIds == {<<"e1">>, <<"e2">>}

Keys == ExecIds \cup {LATEST_EXECUTION}

\* a key with no item: get_item answers without 'Item'
NoItem == [a \in {} |-> 0]

EmptyTable == [k \in Keys |-> NoItem]

\* a service that ignores a value no expression uses
ValidUpdate_Lenient(expr, values) ==
    \A a \in DOMAIN expr : expr[a] \in DOMAIN values

\* what the service rejects with a ValidationException: a placeholder of the
\* update expression without a value, or a value no expression uses
ValidUpdate(expr, values) ==
    /\ \A a \in DOMAIN expr : expr[a] \in DOMAIN values
    /\ \A p \in DOMAIN values : \E a \in DOMAIN expr : expr[a] = p

\* "SET a = :p, ..." on the item under key: an upsert that leaves every
\* attribute it does not name as it was
SetAttributes(item, key, expr, values) ==
    LET named == DOMAIN expr
        all == DOMAIN item \cup named \cup {PK_NAME}
    IN  [a \in all |-> IF a \in named THEN values[expr[a]]
                       ELSE IF a = PK_NAME THEN key
                       ELSE item[a]]

\* table.update_item: the table afterwards
update_item(table, key, expr, values) ==
    [table EXCEPT ![key] = SetAttributes(table[key], key, expr, values)]

\* table.update_item raises: the service is unavailable (ok = FALSE) or the
\* request is rejected
update_item_raises(expr, values, ok) ==
    ~ok \/ ~ValidUpdate(expr, values)

----------------------------------------------------------------------------
(* Inbound lifecycle events of the writer *)

STAGE_CHANGE == "CodePipeline Stage Execution State Change"
ACTION_CHANGE == "CodePipeline Action Execution State Change"
OTHER_CHANGE == "CodePipeline Pipeline Execution State Change"

Stages == {"Source", "Build", "Deploy"}

\* the states of the data model's status field, and for action-level events
\* one more that is neither STARTED, SUCCEEDED nor FAILED
States == {"STARTED", "SUCCEEDED", "FAILED"}
ActionStates == States \cup {"CANCELED"}

\* detail.execution-result: absent, or holding external-execution-summary
NoResult == [a \in {} |-> ""]
WithSummary == [a \in {"external-execution-summary"} |-> "COMMAND_EXECUTION_ERROR"]

\* detail.output-artifacts: none, or one artifact without a codeBuildId
\* followed by one with it
CodeBuildId == <<"deployer-project", ":", "b1">>
ArtifactLists ==
    { <<>>,
      <<[name |-> "SourceArtifact"],
        [name |-> "BuildArtifact", codeBuildId |-> CodeBuildId]>> }

\* Only a Source/STARTED event's time and only an action-level FAILED event's
\* execution-result and output-artifacts are read by the handler; the other
\* events carry one value of each.
StageEvents ==
    [dtype : {STAGE_CHANGE}, id : ExecIds, stage : Stages, state : States,
     time : {1}, result : {NoResult}, artifacts : {<<>>}]
    \cup
    [dtype : {STAGE_CHANGE}, id : ExecIds, stage : {"Source"}, state : {"STARTED"},
     time : 1..MaxTime, result : {NoResult}, artifacts : {<<>>}]

ActionEvents ==
    [dtype : {ACTION_CHANGE}, id : ExecIds, stage : Stages, state : ActionStates \ {"FAILED"},
     time : {1}, result : {NoResult}, artifacts : {<<>>}]
    \cup
    [dtype : {ACTION_CHANGE}, id : ExecIds, stage : Stages, state : {"FAILED"},
     time : {1}, result : {NoResult, WithSummary}, artifacts : ArtifactLists]

OtherEvents ==
    [dtype : {OTHER_CHANGE}, id : ExecIds, stage : {"Source"}, state : {"STARTED"},
     time : {1}, result : {NoResult}, artifacts : {<<>>}]

Events == StageEvents \cup ActionEvents \cup OtherEvents

NoEvent == [dtype |-> "none"]

\* the declared stage topologies get_pipeline can answer with
Topologies == { <<"Source", "Build", "Deploy">>, <<"Source", "Deploy">> }

\* what get_bedrock_solution returns (it never raises): the service's text or
\* one of its canned fallbacks, a non-empty string either way
AdvisorTexts == {"Bedrock AI: check the build command"}

\* the same with the fallback string of a failed call and with the empty text
\* of a response whose text block is empty
ADVISOR_FALLBACK == "Bedrock AI call failed: ThrottlingException"
AdvisorResults == AdvisorTexts \cup {ADVISOR_FALLBACK, ""}

UNKNOWN_ERROR == "Unknown error (no execution-summary)."

----------------------------------------------------------------------------
(* Log reference builder *)

LOG_GROUP_NAME == <<"/", "aws", "/", "codebuild", "/", "sample-app2-eb-build">>
LOG_GROUP_NAME_DEPLOY == <<"/", "aws", "/", "codebuild", "/", "deployer-project">>
CLOUDWATCH_CONSOLE_BASE ==
    "https://ap-northeast-2.console.aws.amazon.com/cloudwatch/home?region=ap-northeast-2#logs:log-group"

\* urllib.parse.quote_plus, token by token: reserved characters become
\* percent escapes, a space becomes +, everything else is kept
QuoteToken(t) ==
    CASE t = "/" -> "%2F"
      [] t = ":" -> "%3A"
      [] t = " " -> "+"
      [] OTHER -> t

quote_plus(s) == [n \in 1..Len(s) |-> QuoteToken(s[n])]

\* generate_log_url without the test of the stage
generate_log_url_AnyStage(stage_name, build_id) ==
    IF build_id # <<>>
    THEN LET log_group == IF stage_name = "Deploy" THEN LOG_GROUP_NAME_DEPLOY
                          ELSE LOG_GROUP_NAME
         IN  <<CLOUDWATCH_CONSOLE_BASE, "/">> \o quote_plus(log_group)
                 \o <<"/log-stream/">> \o quote_plus(build_id)
    ELSE <<>>

\* lines 238-252
generate_log_url(stage_name, build_id) ==
    IF stage_name \in {"Build", "Deploy"} /\ build_id # <<>>
    THEN LET log_group == IF stage_name = "Build" THEN LOG_GROUP_NAME
                          ELSE LOG_GROUP_NAME_DEPLOY
         IN  <<CLOUDWATCH_CONSOLE_BASE, "/">> \o quote_plus(log_group)
                 \o <<"/log-stream/">> \o quote_plus(build_id)
    ELSE <<>>

----------------------------------------------------------------------------
(* The writer's lambda_handler, one step per external call *)

Invocations == {1, 2}

\* the handler's return value: nothing yet, None, or a dict
Pending == [kind |-> "pending"]
RespNone == [kind |-> "None"]
Resp(code, body) == [kind |-> "dict", statusCode |-> code, body |-> body]

NoMessage == [kind |-> "none"]

\* an invocation that holds no event. calls lists the update_item calls made
\* and how each ended, advisor counts get_bedrock_solution calls, posts the
\* webhook requests, delivered is FALSE when one of them failed; known tells
\* whether the table held a record of the event's execution when the event
\* arrived.
IdleInvocation ==
    [pc |-> "idle", event |-> NoEvent, known |-> FALSE, stage_name |-> "", status |-> "",
     build_id |-> <<>>, error_message |-> "", ai_solution |-> "",
     stage_list |-> <<>>, response |-> Pending,
     calls |-> <<>>, advisor |-> 0, message |-> NoMessage, posts |-> 0,
     delivered |-> TRUE]

\* the first codeBuildId among the output artifacts, else the fallback
RECURSIVE FirstCodeBuildId(_, _)
FirstCodeBuildId(artifacts, fallback) ==
    IF artifacts = <<>> THEN fallback
    ELSE IF "codeBuildId" \in DOMAIN Head(artifacts) THEN Head(artifacts).codeBuildId
    ELSE FirstCodeBuildId(Tail(artifacts), fallback)

\* Filter without the suppression of stage-level FAILED events
Filter_StageFailedAccepted(e) ==
    IF e.dtype = STAGE_CHANGE THEN "accept"
    ELSE IF e.dtype = ACTION_CHANGE
    THEN IF e.state # "FAILED" THEN "ignore" ELSE "accept"
    ELSE "unknown"

\* Filter without the suppression of action-level duplicates
Filter_ActionsAccepted(e) ==
    IF e.dtype = STAGE_CHANGE
    THEN IF e.state = "FAILED" THEN "ignore" ELSE "accept"
    ELSE IF e.dtype = ACTION_CHANGE THEN "accept"
    ELSE "unknown"

\* Filter taking every other detail-type for a stage-level event
Filter_UnknownAccepted(e) ==
    IF e.dtype = ACTION_CHANGE
    THEN IF e.state # "FAILED" THEN "ignore" ELSE "accept"
    ELSE IF e.state = "FAILED" THEN "ignore" ELSE "accept"

\* the filter of the two recognized detail-types: "accept", "ignore" (an
\* acknowledged duplicate) or "unknown" (any other detail-type)
Filter(e) ==
    IF e.dtype = STAGE_CHANGE
    THEN IF e.state = "FAILED" THEN "ignore" ELSE "accept"
    ELSE IF e.dtype = ACTION_CHANGE
    THEN IF e.state # "FAILED" THEN "ignore" ELSE "accept"
    ELSE "unknown"

\* build_id: the execution id, or for an accepted action-level event of Build
\* or Deploy the first codeBuildId of its output artifacts
BuildIdOf(e) ==
    IF e.dtype = ACTION_CHANGE /\ e.stage \in {"Build", "Deploy"}
    THEN FirstCodeBuildId(e.artifacts, e.id)
    ELSE e.id

\* parse the event and filter it; an accepted event goes on to the advisor
\* (FAILED) or to the write
W_ReceiveFrom(i, events) ==
    /\ w[i].pc = "idle"
    /\ \E e \in events :
         LET f == Filter(e)
             arrived == [IdleInvocation EXCEPT !.event = e,
                                               !.known = (store[e.id] # NoItem)]
         IN
         w' = [w EXCEPT ![i] =
                 IF f = "ignore"
                 THEN [arrived EXCEPT !.pc = "done",
                          !.stage_name = e.stage, !.status = e.state,
                          !.build_id = e.id, !.response = Resp(200, "")]
                 ELSE IF f = "unknown"
                 THEN [arrived EXCEPT !.pc = "done",
                          !.build_id = e.id, !.response = RespNone]
                 ELSE [arrived EXCEPT
                          !.pc = IF e.state = "FAILED" THEN "advisor" ELSE "dispatch",
                          !.stage_name = e.stage, !.status = e.state,
                          !.build_id = BuildIdOf(e)]]
    /\ UNCHANGED <<store, DISCORD_URL, SLACK_URL, hv, bedrock, px, rd, lu>>

W_Receive(i) == W_ReceiveFrom(i, Events)

\* the error summary without the fixed string for an event that has none
ErrorSummary_NoFallback(e) ==
    IF "external-execution-summary" \in DOMAIN e.result
    THEN e.result["external-execution-summary"]
    ELSE ""

\* status == 'FAILED': the error summary, then the diagnostic advisor
ErrorSummary(e) ==
    IF "external-execution-summary" \in DOMAIN e.result
    THEN e.result["external-execution-summary"]
    ELSE UNKNOWN_ERROR

W_AdvisorFrom(i, texts) ==
    /\ w[i].pc = "advisor"
    /\ \E text \in texts :
         w' = [w EXCEPT ![i].error_message = ErrorSummary(w[i].event),
                        ![i].ai_solution = text,
                        ![i].advisor = @ + 1,
                        ![i].pc = "dispatch"]
    /\ UNCHANGED <<store, DISCORD_URL, SLACK_URL, hv, bedrock, px, rd, lu>>

W_Advisor(i) == W_AdvisorFrom(i, AdvisorTexts)

IsFirstEvent(l) == l.stage_name = "Source" /\ l.status = "STARTED"

\* codepipeline_client.get_pipeline: the stage names, or an exception that
\* sends the handler to the update-only call of the except branch
W_GetPipeline(i) ==
    /\ w[i].pc = "dispatch"
    /\ IsFirstEvent(w[i])
    /\ \/ \E t \in Topologies :
            w' = [w EXCEPT ![i].stage_list = t,
                           ![i].ai_solution = "",
                           ![i].pc = "pointer"]
       \/ w' = [w EXCEPT ![i].pc = "fallback"]
    /\ UNCHANGED <<store, DISCORD_URL, SLACK_URL, hv, bedrock, px, rd, lu>>

\* lines 101-108: the pointer record's update
PointerUpdate(l) ==
    [expr |-> [latestExecutionId |-> ":pid", lastStartTime |-> ":time"],
     values |-> (":pid" :> l.event.id) @@ (":time" :> l.event.time)]

\* lines 111-124: the full record's update. Its values name :ai, which the
\* expression does not use.
FullUpdate(l) ==
    [expr |-> [currentStage |-> ":stage", status |-> ":status",
               errorMessage |-> ":errMsg", totalStages |-> ":tc",
               stageList |-> ":sl", logUrl |-> ":lUrl"],
     values |-> (":stage" :> l.stage_name) @@ (":status" :> l.status)
                @@ (":errMsg" :> l.error_message) @@ (":tc" :> Len(l.stage_list))
                @@ (":sl" :> l.stage_list)
                @@ (":lUrl" :> generate_log_url(l.stage_name, l.build_id))
                @@ (":ai" :> l.ai_solution)]

\* update_simple_status resetting the topology fields as well
SimpleUpdate_ResetsTopology(l) ==
    [expr |-> [currentStage |-> ":stage", status |-> ":status",
               errorMessage |-> ":errMsg", logUrl |-> ":lUrl", aiSolution |-> ":ai",
               totalStages |-> ":tc", stageList |-> ":sl"],
     values |-> (":stage" :> l.stage_name) @@ (":status" :> l.status)
                @@ (":errMsg" :> l.error_message)
                @@ (":lUrl" :> generate_log_url(l.stage_name, l.build_id))
                @@ (":ai" :> l.ai_solution)
                @@ (":tc" :> 0) @@ (":sl" :> <<>>)]

\* update_simple_status writing the unknown-error string whatever the status
SimpleUpdate_StaleError(l) ==
    [expr |-> [currentStage |-> ":stage", status |-> ":status",
               errorMessage |-> ":errMsg", logUrl |-> ":lUrl", aiSolution |-> ":ai"],
     values |-> (":stage" :> l.stage_name) @@ (":status" :> l.status)
                @@ (":errMsg" :> UNKNOWN_ERROR)
                @@ (":lUrl" :> generate_log_url(l.stage_name, l.build_id))
                @@ (":ai" :> l.ai_solution)]

\* lines 217-235, update_simple_status: the update-only write
SimpleUpdate(l) ==
    [expr |-> [currentStage |-> ":stage", status |-> ":status",
               errorMessage |-> ":errMsg", logUrl |-> ":lUrl", aiSolution |-> ":ai"],
     values |-> (":stage" :> l.stage_name) @@ (":status" :> l.status)
                @@ (":errMsg" :> l.error_message)
                @@ (":lUrl" :> generate_log_url(l.stage_name, l.build_id))
                @@ (":ai" :> l.ai_solution)]

\* the handler without its top-level except branch: the exception escapes
ErrorResponse_Escapes == [kind |-> "raised", statusCode |-> 0, body |-> "Error"]

\* the top-level except branch: the exception becomes a dict with statusCode 200
ErrorResponse == Resp(200, "Error")

\* how one update_item call ended
Outcome(u, ok) ==
    IF ~ok THEN "unavailable"
    ELSE IF update_item_raises(u.expr, u.values, ok) THEN "ValidationException"
    ELSE "ok"

\* one update_item call of invocation i from call site `site`: on success the
\* table changes and the handler goes to pc `next`; when the call raises the
\* table is untouched and the handler goes to `handler`, or, with no enclosing
\* inner try, to the top-level except branch and returns
Write(i, site, key, u, next, handler) ==
    \E ok \in BOOLEAN :
      LET call == [site |-> site, result |-> Outcome(u, ok)] IN
      IF update_item_raises(u.expr, u.values, ok)
      THEN /\ store' = store
           /\ w' = [w EXCEPT ![i].calls = Append(@, call),
                             ![i].pc = IF handler = "top" THEN "done" ELSE handler,
                             ![i].response = IF handler = "top" THEN ErrorResponse ELSE @]
      ELSE /\ store' = update_item(store, key, u.expr, u.values)
           /\ w' = [w EXCEPT ![i].calls = Append(@, call), ![i].pc = next]

W_PointerWrite(i) ==
    /\ w[i].pc = "pointer"
    /\ Write(i, "pointer", LATEST_EXECUTION, PointerUpdate(w[i]), "full", "fallback")
    /\ UNCHANGED <<DISCORD_URL, SLACK_URL, hv, bedrock, px, rd, lu>>

W_FullWrite(i) ==
    /\ w[i].pc = "full"
    /\ Write(i, "full", w[i].event.id, FullUpdate(w[i]), "notify", "fallback")
    /\ UNCHANGED <<DISCORD_URL, SLACK_URL, hv, bedrock, px, rd, lu>>

update_simple_status(i) ==
    Write(i, "simple", w[i].event.id, SimpleUpdate(w[i]), "notify", "top")

\* line 127: the except branch of the first-event path
W_Fallback(i) ==
    /\ w[i].pc = "fallback"
    /\ update_simple_status(i)
    /\ UNCHANGED <<DISCORD_URL, SLACK_URL, hv, bedrock, px, rd, lu>>

\* line 131: every accepted event that is not Source/STARTED
W_StatusOnly(i) ==
    /\ w[i].pc = "dispatch"
    /\ ~IsFirstEvent(w[i])
    /\ update_simple_status(i)
    /\ UNCHANGED <<DISCORD_URL, SLACK_URL, hv, bedrock, px, rd, lu>>

\* get_item_from_db: the stored item, or {} when the lookup raises
get_item_from_db(pipeline_id, ok) == IF ok THEN store[pipeline_id] ELSE NoItem

\* send_notification's message: a fixed template per happy-path transition,
\* the failure template for FAILED, else nothing
HappyPath_WithoutStart ==
    { <<"STARTED", "Build">>, <<"SUCCEEDED", "Build">>,
      <<"STARTED", "Deploy">>, <<"SUCCEEDED", "Deploy">> }

HappyPath ==
    { <<"STARTED", "Source">>, <<"STARTED", "Build">>, <<"SUCCEEDED", "Build">>,
      <<"STARTED", "Deploy">>, <<"SUCCEEDED", "Deploy">> }

Message(l, item) ==
    IF <<l.status, l.stage_name>> \in HappyPath
    THEN [kind |-> "progress", id |-> l.event.id, stage |-> l.stage_name,
          status |-> l.status]
    ELSE IF l.status = "FAILED"
    THEN [kind |-> "failure", stage |-> l.stage_name, reason |-> l.error_message,
          ai |-> l.ai_solution,
          log |-> IF "logUrl" \in DOMAIN item THEN item.logUrl ELSE <<>>]
    ELSE NoMessage

\* lines 134-136: the notification, one request per configured webhook, a
\* failed request being logged and swallowed, and the handler's normal return
W_Notify(i) ==
    /\ w[i].pc = "notify"
    /\ \E ok \in (IF w[i].status = "FAILED" THEN BOOLEAN ELSE {TRUE}) :
         LET m == Message(w[i], get_item_from_db(w[i].event.id, ok))
             n == IF m = NoMessage THEN 0
                  ELSE (IF DISCORD_URL THEN 1 ELSE 0) + (IF SLACK_URL THEN 1 ELSE 0)
         IN  \E sent \in (IF n > 0 THEN BOOLEAN ELSE {TRUE}) :
               w' = [w EXCEPT ![i].message = m, ![i].posts = n,
                              ![i].delivered = sent,
                              ![i].response = Resp(200, ""), ![i].pc = "done"]
    /\ UNCHANGED <<store, DISCORD_URL, SLACK_URL, hv, bedrock, px, rd, lu>>

\* the invocation ends; the next event gets a fresh one
W_Return(i) ==
    /\ w[i].pc = "done"
    /\ w' = [w EXCEPT ![i] = IdleInvocation]
    /\ UNCHANGED <<store, DISCORD_URL, SLACK_URL, hv, bedrock, px, rd, lu>>

WriterStep(i) ==
    \/ W_Receive(i)
    \/ W_Advisor(i)
    \/ W_GetPipeline(i)
    \/ W_PointerWrite(i)
    \/ W_FullWrite(i)
    \/ W_Fallback(i)
    \/ W_StatusOnly(i)
    \/ W_Notify(i)
    \/ W_Return(i)

----------------------------------------------------------------------------
(* The diagnostic advisor: get_bedrock_solution, one step per service call,
   wait or parse *)

max_retries == 3
base_delay == 2

\* error_headline, as the handler passes it
Headlines == {UNKNOWN_ERROR, "COMMAND_EXECUTION_ERROR"}

\* str(e) of the exceptions invoke_model raises, as token sequences
ErrorMessage(class) == <<"An error occurred (", class, ") when calling InvokeModel">>
THROTTLING == "ThrottlingException"
ErrorClasses ==
    { THROTTLING, "ValidationException", "AccessDeniedException",
      "ResourceNotFoundException", "ServiceUnavailableException" }
ErrorMessages ==
    {ErrorMessage(c) : c \in ErrorClasses} \cup {<<"Read timeout on endpoint URL">>}

\* `tok in str(e)`
Contains(msg, tok) == \E n \in 1..Len(msg) : msg[n] = tok

SOLUTION == <<"check the build command and run it again">>

\* the body of a response: a message with a text block, with an empty text,
\* with a block that has no text, with no block, without content, or bytes
\* that are no JSON
ResponseBodies ==
    { [content |-> <<[text |-> SOLUTION]>>],
      [content |-> <<[text |-> <<>>]>>],
      [content |-> <<[type |-> "tool_use"]>>],
      [content |-> <<>>],
      [type |-> "error"],
      [invalid |-> "json"] }

InvokeResults ==
    [kind : {"response"}, body : ResponseBodies]
    \cup {[kind |-> "error", msg |-> m] : m \in ErrorMessages}

NO_TEXT == <<"the model generated no answer">>
BAD_FORMAT == <<"the model's answer has the wrong format">>
FALLBACK_VALIDATION == <<"wrong model id, or a model not available in the region">>
FALLBACK_ACCESS == <<"no access to the model, check the IAM policy">>
FALLBACK_NOT_FOUND == <<"model not found, check the model id and the region">>
CALL_FAILED == "Bedrock AI call failed: "

\* lines 201-213: the string returned for an exception
Fallback(msg) ==
    IF Contains(msg, "ValidationException") THEN FALLBACK_VALIDATION
    ELSE IF Contains(msg, "AccessDeniedException") THEN FALLBACK_ACCESS
    ELSE IF Contains(msg, "ResourceNotFoundException") THEN FALLBACK_NOT_FOUND
    ELSE <<CALL_FAILED>> \o msg

\* lines 190-199: the text taken from a response body, or the string returned
\* when reading the body raises
SolutionText(body) ==
    IF "invalid" \in DOMAIN body THEN Fallback(<<"Expecting value">>)
    ELSE IF "content" \in DOMAIN body /\ Len(body.content) > 0
    THEN IF "text" \in DOMAIN body.content[1] THEN body.content[1].text ELSE NO_TEXT
    ELSE BAD_FORMAT

\* the wait as a constant delay
wait_time_Constant(attempt) == base_delay

\* line 184
wait_time(attempt) == base_delay * (2 ^ attempt)

\* a retry after an error of any class
ShouldRetry_AnyError(msg, attempt) == attempt < max_retries - 1

\* line 183: the one case in which the loop goes on
ShouldRetry(msg, attempt) == Contains(msg, THROTTLING) /\ attempt < max_retries - 1

\* no call in progress. trace lists the invoke_model calls and the sleeps in
\* the order they were made.
BedrockIdle ==
    [pc |-> "idle", headline |-> "", attempt |-> 0, trace |-> <<>>,
     body |-> [type |-> "none"], result |-> <<>>]

BedrockUnchanged == UNCHANGED <<store, DISCORD_URL, SLACK_URL, w, hv, px, rd, lu>>

B_Call ==
    /\ bedrock.pc = "idle"
    /\ \E h \in Headlines :
         bedrock' = [BedrockIdle EXCEPT !.pc = "invoke", !.headline = h]
    /\ BedrockUnchanged

\* lines 172-188: one attempt
B_Invoke ==
    /\ bedrock.pc = "invoke"
    /\ \E r \in InvokeResults :
         LET called == [bedrock EXCEPT
                          !.trace = Append(@, [op |-> "invoke", attempt |-> bedrock.attempt,
                                               result |-> r])]
         IN
         bedrock' =
           IF r.kind = "response"
           THEN [called EXCEPT !.body = r.body, !.pc = "parse"]
           ELSE IF ShouldRetry(r.msg, bedrock.attempt)
           THEN [called EXCEPT !.pc = "sleep"]
           ELSE [called EXCEPT !.result = Fallback(r.msg), !.pc = "done"]
    /\ BedrockUnchanged

\* lines 184-186: the wait before the next attempt
B_Sleep ==
    /\ bedrock.pc = "sleep"
    /\ bedrock' = [bedrock EXCEPT
                     !.trace = Append(@, [op |-> "sleep", attempt |-> bedrock.attempt,
                                          seconds |-> wait_time(bedrock.attempt)]),
                     !.attempt = @ + 1, !.pc = "invoke"]
    /\ BedrockUnchanged

\* lines 190-199
B_Parse ==
    /\ bedrock.pc = "parse"
    /\ bedrock' = [bedrock EXCEPT !.result = SolutionText(bedrock.body), !.pc = "done"]
    /\ BedrockUnchanged

B_Return ==
    /\ bedrock.pc = "done"
    /\ bedrock' = BedrockIdle
    /\ BedrockUnchanged

NextAdvisor ==
    \/ B_Call
    \/ B_Invoke
    \/ B_Sleep
    \/ B_Parse
    \/ B_Return

----------------------------------------------------------------------------
(* The reader: lambda_handler of reader.py, one step per external call *)

\* the request's event: pathParameters with the id, without it (another
\* parameter only), null (a route without path parameters), or no
\* pathParameters key at all
NULL == [null |-> TRUE]
Requests ==
    {[pathParameters |-> [pipelineId |-> k]] : k \in Keys}
    \cup { [pathParameters |-> [proxy |-> <<"e1">>]],
           [pathParameters |-> NULL],
           [headers |-> "none"] }

\* event['pathParameters']['pipelineId']: the id, a KeyError (a dict without
\* the key), or a TypeError (None is not subscriptable)
PathParameter(event) ==
    IF "pathParameters" \notin DOMAIN event THEN [raises |-> "KeyError"]
    ELSE IF event.pathParameters = NULL THEN [raises |-> "TypeError"]
    ELSE IF "pipelineId" \notin DOMAIN event.pathParameters THEN [raises |-> "KeyError"]
    ELSE [value |-> event.pathParameters.pipelineId]

\* the attributes the table returns as Decimal
NumberAttributes == {"totalStages"}

\* json.dumps(item) raises a TypeError on a Decimal
json_dumps_raises(item) == DOMAIN item \cap NumberAttributes # {}

RdPending == [kind |-> "pending"]
RdRaised(error) == [kind |-> "raised", error |-> error]
RdResp(code, body) == [kind |-> "dict", statusCode |-> code, body |-> body]

\* gets counts the get_item calls, lookup tells how the last one ended
RdIdle == [pc |-> "idle", event |-> [headers |-> "none"], pipelineId |-> <<>>,
           gets |-> 0, lookup |-> "none", response |-> RdPending]

RdUnchanged == UNCHANGED <<store, DISCORD_URL, SLACK_URL, w, hv, bedrock, px, lu>>

\* lines 15-22: the path parameter; only a KeyError is caught
R_Receive ==
    /\ rd.pc = "idle"
    /\ \E event \in Requests :
         LET p == PathParameter(event)
             arrived == [RdIdle EXCEPT !.event = event]
         IN
         rd' = IF "value" \in DOMAIN p
               THEN [arrived EXCEPT !.pipelineId = p.value, !.pc = "lookup"]
               ELSE IF p.raises = "KeyError"
               THEN [arrived EXCEPT !.response = RdResp(400, NoItem), !.pc = "done"]
               ELSE [arrived EXCEPT !.response = RdRaised(p.raises), !.pc = "done"]
    /\ RdUnchanged

\* lines 24-52: get_item and the response built from it
R_Lookup ==
    /\ rd.pc = "lookup"
    /\ \E ok \in BOOLEAN :
         LET item == store[rd.pipelineId]
             looked == [rd EXCEPT !.gets = @ + 1, !.pc = "done",
                                  !.lookup = IF ok THEN "ok" ELSE "failed"]
         IN
         rd' = IF ~ok THEN [looked EXCEPT !.response = RdResp(500, NoItem)]
               ELSE IF item = NoItem THEN [looked EXCEPT !.response = RdResp(404, NoItem)]
               ELSE IF json_dumps_raises(item)
               THEN [looked EXCEPT !.response = RdResp(500, NoItem)]
               ELSE [looked EXCEPT !.response = RdResp(200, item)]
    /\ RdUnchanged

R_Return ==
    /\ rd.pc = "done"
    /\ rd' = RdIdle
    /\ RdUnchanged

NextReader ==
    \/ R_Receive
    \/ R_Lookup
    \/ R_Return

----------------------------------------------------------------------------
(* generate_log_url as a function of its two arguments *)

\* stage_name: the pipeline's stages, another stage, or no name
StageNames == Stages \cup {"Approval", ""}

\* build_id: none (None or the empty string), an execution id, a codeBuildId,
\* or an id with a space and a slash
BuildIds == {<<>>, <<"e1">>, CodeBuildId, <<"my", " ", "build", "/", "7">>}

LuIdle == [pc |-> "idle", stage_name |-> "", build_id |-> <<>>, result |-> <<>>]

LuUnchanged == UNCHANGED <<store, DISCORD_URL, SLACK_URL, w, hv, bedrock, px, rd>>

L_Call ==
    /\ lu.pc = "idle"
    /\ \E s \in StageNames, b \in BuildIds :
         lu' = [pc |-> "done", stage_name |-> s, build_id |-> b,
                result |-> generate_log_url(s, b)]
    /\ LuUnchanged

L_Return ==
    /\ lu.pc = "done"
    /\ lu' = LuIdle
    /\ LuUnchanged

----------------------------------------------------------------------------
(* The health validator: process_pipeline_validation, one step per wait or
   external call, over a clock that starts at 0 with the invocation *)

STABILIZATION_DELAY == 30
PROBE_TIMEOUT == 10
DEFAULT_MAX_WAIT == 60
DEFAULT_INTERVAL == 30

\* the values of the environment variables MAX_WAIT and INTERVAL
MaxWaits == {0, 45, DEFAULT_MAX_WAIT}
Intervals == {20, DEFAULT_INTERVAL}

\* how long a telemetry query and a probe can take on the clock
TelemetryDurations == {0, 5}
ProbeDurations == {0, PROBE_TIMEOUT}

CONFIGURED_URL == "http://deploy-land.example/health"
AUTO_URL == "http://env.elasticbeanstalk.com/"

\* pipeline_data: nothing parsed (None or an empty dict), or the parsed record
NoData == [a \in {} |-> ""]
PipelineData ==
    {NoData}
    \cup [pipelineID : {"e1"}, currentStage : {"Build", "Deploy"},
          status : {"SUCCEEDED", "FAILED"}, logUrl : {""}]
    \cup [pipelineID : {"e1"}, status : {"SUCCEEDED"}]

\* dict.get
Get(d, a) == IF a \in DOMAIN d THEN d[a] ELSE "None"

\* describe_environment_health: None (the lookup failed or found nothing), a
\* health record, or one whose Color is not a string
NoTelemetry == [a \in {} |-> ""]
TelemetryResults ==
    { NoTelemetry,
      [Color |-> "Green", HealthStatus |-> "Ok"],
      [Color |-> "Red", HealthStatus |-> "Severe"],
      [HealthStatus |-> "Info"],
      [Color |-> "null", HealthStatus |-> "Ok"] }

\* every color taken for green
Lower_AllGreen(c) == "green"

\* str.lower on the colors of the model
Lower(c) ==
    CASE c = "Green" -> "green"
      [] c = "Red" -> "red"
      [] c = "Unknown" -> "unknown"
      [] OTHER -> c

\* what urlopen does: a response with a code, an HTTPError with a code, a
\* URLError, or another exception (a socket timeout)
ProbeResults ==
    { [kind |-> "response", code |-> 200],
      [kind |-> "response", code |-> 204],
      [kind |-> "HTTPError", code |-> 503],
      [kind |-> "URLError", code |-> 0],
      [kind |-> "Exception", code |-> 0] }

\* any response of urlopen taken for success
ProbeSucceeded_AnyResponse(r) == r.kind = "response"

\* line 163: the one result that ends the loop with success
ProbeSucceeded(r) == r.kind = "response" /\ r.code = 200

\* lines 167-173: the reason a failed probe records
ProbeReason(r) ==
    CASE r.kind \in {"response", "HTTPError"} /\ r.code = 204 -> "HTTP 204 from CHECK_URL"
      [] r.kind \in {"response", "HTTPError"} /\ r.code = 503 -> "HTTP 503 from CHECK_URL"
      [] r.kind = "URLError" -> "URL error: connection refused"
      [] OTHER -> "HTTP request failed: timed out"

\* the unhealthy branch recording nothing
UnhealthyReason_Empty(t) == ""

\* line 175
UnhealthyReason(t) ==
    IF Get(t, "Color") = "Red" THEN "Beanstalk not healthy: Red/Severe"
    ELSE "Beanstalk not healthy: Unknown/Info"

\* the loop's condition letting one more iteration begin at the deadline
LoopContinues_Inclusive(elapsed, max_wait) == elapsed <= max_wait

\* line 146: the loop's condition
LoopContinues(elapsed, max_wait) == elapsed < max_wait

HvPending == [kind |-> "pending"]
\* the configuration error answered instead of raised
HvRaised_Answered(error) == [kind |-> "dict", statusCode |-> 500, status |-> "", text |-> error]

HvRaised(error) == [kind |-> "raised", error |-> error]
HvResp(code, status, text) ==
    [kind |-> "dict", statusCode |-> code, status |-> status, text |-> text]

\* the module's configuration, as the environment variables set it
HvConfigs ==
    [BEANSTALK_ENV_ID : BOOLEAN, BEANSTALK_ENV_NAME : BOOLEAN,
     CHECK_URL : {"", CONFIGURED_URL}, MAX_WAIT : MaxWaits, INTERVAL : Intervals]

\* the validator between invocations. began is the elapsed time at which the
\* current iteration began; probes lists the probes issued in this run, each
\* with the start of its iteration; notes counts send_discord_notification
\* calls.
HvIdleWith(c) ==
    [pc |-> "idle", cfg |-> c, data |-> NoData, now |-> 0, start_time |-> 0,
     success |-> FALSE, reason |-> "", began |-> 0, telemetry |-> NoTelemetry,
     probes |-> {}, notes |-> 0,
     response |-> HvPending]

HvIdle ==
    HvIdleWith([BEANSTALK_ENV_ID |-> TRUE, BEANSTALK_ENV_NAME |-> TRUE,
                CHECK_URL |-> CONFIGURED_URL, MAX_WAIT |-> DEFAULT_MAX_WAIT,
                INTERVAL |-> DEFAULT_INTERVAL])

HvUnchanged == UNCHANGED <<store, DISCORD_URL, SLACK_URL, w, bedrock, px, rd, lu>>

\* lines 85-119: the entry checks
HV_Start ==
    /\ hv.pc = "idle"
    /\ \E d \in PipelineData :
         LET arrived == [hv EXCEPT !.data = d] IN
         hv' =
           IF d = NoData
           THEN [arrived EXCEPT !.pc = "done",
                     !.response = HvResp(400, "", "Invalid event format")]
           ELSE IF Get(d, "currentStage") # "Deploy"
           THEN [arrived EXCEPT !.pc = "done",
                     !.response = HvResp(200, "", "Skipped - not Deploy stage")]
           ELSE IF Get(d, "status") # "SUCCEEDED"
           THEN [arrived EXCEPT !.pc = "done",
                     !.response = HvResp(200, "", "Skipped - status")]
           ELSE IF ~(hv.cfg.BEANSTALK_ENV_ID \/ hv.cfg.BEANSTALK_ENV_NAME)
           THEN [arrived EXCEPT !.pc = "done", !.notes = @ + 1,
                     !.response = HvRaised("ValueError: no environment")]
           ELSE [arrived EXCEPT !.pc = "url"]
    /\ HvUnchanged

\* lines 122-135: the check URL, configured or looked up once and kept in the
\* module's global
HV_ResolveUrl ==
    /\ hv.pc = "url"
    /\ IF hv.cfg.CHECK_URL # ""
       THEN hv' = [hv EXCEPT !.pc = "stabilize"]
       ELSE \E url \in {"", AUTO_URL} :
              hv' = IF url = ""
                    THEN [hv EXCEPT !.pc = "done", !.notes = @ + 1,
                             !.response = HvRaised("ValueError: no CHECK_URL")]
                    ELSE [hv EXCEPT !.pc = "stabilize", !.cfg.CHECK_URL = url]
    /\ HvUnchanged

\* lines 137-144: the stabilization wait, then the loop's start time
HV_Stabilize ==
    /\ hv.pc = "stabilize"
    /\ hv' = [hv EXCEPT !.now = @ + STABILIZATION_DELAY,
                        !.start_time = hv.now + STABILIZATION_DELAY,
                        !.success = FALSE, !.reason = "", !.pc = "check"]
    /\ HvUnchanged

\* line 146: the deadline check at the top of the loop
HV_Check ==
    /\ hv.pc = "check"
    /\ hv' = IF LoopContinues(hv.now - hv.start_time, hv.cfg.MAX_WAIT)
             THEN [hv EXCEPT !.pc = "telemetry", !.began = hv.now - hv.start_time]
             ELSE [hv EXCEPT !.pc = "report"]
    /\ HvUnchanged

\* lines 148-158, 174-178: the telemetry query and what it decides
HV_Telemetry ==
    /\ hv.pc = "telemetry"
    /\ \E t \in TelemetryResults, d \in TelemetryDurations :
         LET asked == [hv EXCEPT !.now = @ + d, !.telemetry = t]
             color == IF t = NoTelemetry THEN "green"
                      ELSE IF "Color" \in DOMAIN t THEN t.Color
                      ELSE "Unknown"
         IN
         hv' =
           IF color = "null"
           THEN [asked EXCEPT !.reason = "Error checking Beanstalk: AttributeError",
                    !.pc = "sleep"]
           ELSE IF Lower(color) = "green" \/ t = NoTelemetry
           THEN [asked EXCEPT !.pc = "probe"]
           ELSE [asked EXCEPT !.reason = UnhealthyReason(t), !.pc = "sleep"]
    /\ HvUnchanged

\* lines 159-173: the reachability probe
HV_Probe ==
    /\ hv.pc = "probe"
    /\ \E r \in ProbeResults, d \in ProbeDurations :
         LET probed == [hv EXCEPT !.now = @ + d,
                           !.probes = @ \cup {[began |-> hv.began, result |-> r]}]
         IN
         hv' = IF ProbeSucceeded(r)
               THEN [probed EXCEPT !.success = TRUE, !.pc = "report"]
               ELSE [probed EXCEPT !.reason = ProbeReason(r), !.pc = "sleep"]
    /\ HvUnchanged

\* line 180: the wait between iterations
HV_Sleep ==
    /\ hv.pc = "sleep"
    /\ hv' = [hv EXCEPT !.now = @ + hv.cfg.INTERVAL, !.pc = "check"]
    /\ HvUnchanged

\* lines 182-206: the verdict
HV_Report ==
    /\ hv.pc = "report"
    /\ hv' = [hv EXCEPT !.notes = @ + 1, !.pc = "done",
                 !.response = IF hv.success
                              THEN HvResp(200, "success", "")
                              ELSE HvResp(500, "failed", hv.reason)]
    /\ HvUnchanged

\* the invocation ends; the module's globals stay
HV_Return ==
    /\ hv.pc = "done"
    /\ hv' = HvIdleWith(hv.cfg)
    /\ HvUnchanged

\* the handler of a change batch: lambda_handler's loop over event['Records']

\* type-tagged values of a change record's NewImage
TagS(v) == [S |-> v]
TagN(v) == [N |-> v]
TagL(v) == [L |-> v]
TagNULL == [NULL |-> TRUE]
NoTag == [t \in {} |-> ""]

\* int(): the value of a string of digits, a ValueError on anything else
Digits == {"0", "1", "2", "3"}
DigitValue(d) == CASE d = "0" -> 0 [] d = "1" -> 1 [] d = "2" -> 2 [] OTHER -> 3
IsInt(s) == Len(s) > 0 /\ \A n \in 1..Len(s) : s[n] \in Digits
RECURSIVE int(_)
int(s) == IF Len(s) = 1 THEN DigitValue(s[1])
          ELSE 10 * int(SubSeq(s, 1, Len(s) - 1)) + DigitValue(s[Len(s)])

\* the fields parse_dynamodb_item reads with tag S
StringFields == {"pipelineID", "currentStage", "status", "errorMessage", "logUrl", "aiSolution"}

NoField == [a \in {} |-> NoTag]
Field(a, v) == a :> v

\* NewImage: the record's string fields, then totalStages and stageList, well
\* formed, with another tag, without a tag, or absent
StageValues == {TagS("Build"), TagS("Deploy"), TagN(<<"1">>), NoTag}
StatusValues == {TagS("SUCCEEDED"), TagNULL}
TotalValues == {TagN(<<"3">>), TagN(<<"1", "2">>), TagN(<<"3", ".", "5">>), TagS("3")}
ListValues ==
    { TagL(<<TagS("Source"), TagS("Build")>>),
      TagL(<<TagS("Source"), TagN(<<"2">>)>>),
      TagS("Source") }

NewImages ==
    {NoField}
    \cup { Field("pipelineID", TagS("e1")) @@ Field("currentStage", cs)
             @@ Field("status", st) @@ Field("logUrl", TagS(""))
           : cs \in StageValues, st \in StatusValues }
    \cup { Field("pipelineID", TagS("e1")) @@ Field("currentStage", TagS("Build"))
             @@ Field("status", TagS("SUCCEEDED")) @@ Field("totalStages", ts)
           : ts \in TotalValues }
    \cup { Field("pipelineID", TagS("e1")) @@ Field("currentStage", TagS("Build"))
             @@ Field("status", TagS("SUCCEEDED")) @@ Field("stageList", sl)
           : sl \in ListValues }

Tagged(item, a, tag) == a \in DOMAIN item /\ tag \in DOMAIN item[a]

\* lines 317-345: the exception parse_dynamodb_item raises on the item, if any
parse_raises(item) ==
    IF Tagged(item, "totalStages", "N") /\ ~IsInt(item.totalStages.N) THEN "ValueError"
    ELSE IF Tagged(item, "stageList", "L")
            /\ \E n \in 1..Len(item.stageList.L) : "S" \notin DOMAIN item.stageList.L[n]
    THEN "KeyError"
    ELSE "none"

\* lines 317-345: the dict parse_dynamodb_item returns when it raises nothing
parse_dynamodb_item(item) ==
    LET present == {a \in StringFields : Tagged(item, a, "S")}
                   \cup (IF Tagged(item, "totalStages", "N") THEN {"totalStages"} ELSE {})
                   \cup (IF Tagged(item, "stageList", "L") THEN {"stageList"} ELSE {})
    IN  [a \in present |->
            IF a = "totalStages" THEN int(item.totalStages.N)
            ELSE IF a = "stageList"
            THEN [n \in 1..Len(item.stageList.L) |-> item.stageList.L[n].S]
            ELSE item[a].S]

MaxBatch == 2

EventNames == {"INSERT", "MODIFY", "REMOVE"}

\* a change record; dynamodb.NewImage is absent on a REMOVE
ChangeRecords ==
    [eventName : {"INSERT", "MODIFY"}, NewImage : NewImages]
    \cup [eventName : {"REMOVE"}, NewImage : {NoField}]

Batches == UNION {[1..n -> ChangeRecords] : n \in 1..MaxBatch}

PxPending == [kind |-> "pending"]
PxRaised(error) == [kind |-> "raised", error |-> error]
PxResp(code, text) == [kind |-> "dict", statusCode |-> code, text |-> text]

\* what process_pipeline_validation does with pipeline_data: the answers of
\* its entry checks, or for a succeeded Deploy one of the run's ends
ValidationResults(data) ==
    IF DOMAIN data = {} THEN {PxResp(400, "Invalid event format")}
    ELSE IF Get(data, "currentStage") # "Deploy"
    THEN {PxResp(200, "Skipped - not Deploy stage")}
    ELSE IF Get(data, "status") # "SUCCEEDED" THEN {PxResp(200, "Skipped - status")}
    ELSE {PxResp(200, "success"), PxResp(500, "failed"), PxRaised("ValueError")}

\* `if result:` on what process_pipeline_validation returned
Truthy(result) == result.kind = "dict"

\* k is the record the loop is at; parsed and validated list the records
\* parse_dynamodb_item returned for and process_pipeline_validation ran for
PxIdle ==
    [pc |-> "idle", Records |-> <<>>, k |-> 0, data |-> NoData,
     parsed |-> {}, validated |-> <<>>, response |-> PxPending]

PxUnchanged == UNCHANGED <<store, DISCORD_URL, SLACK_URL, w, hv, bedrock, rd, lu>>

PX_Receive ==
    /\ px.pc = "idle"
    /\ \E batch \in Batches :
         px' = [PxIdle EXCEPT !.pc = "record", !.Records = batch, !.k = 1]
    /\ PxUnchanged

\* lines 29-36 and 42-45: the next record, parsed when it is an INSERT or a
\* MODIFY
PX_Record ==
    /\ px.pc = "record"
    /\ px' =
         IF px.k > Len(px.Records)
         THEN [px EXCEPT !.response = PxResp(200, "Processed all records"), !.pc = "done"]
         ELSE LET record == px.Records[px.k] IN
              IF record.eventName \notin {"INSERT", "MODIFY"}
              THEN [px EXCEPT !.k = @ + 1]
              ELSE IF parse_raises(record.NewImage) # "none"
              THEN [px EXCEPT !.response = PxRaised(parse_raises(record.NewImage)),
                              !.pc = "done"]
              ELSE [px EXCEPT !.data = parse_dynamodb_item(record.NewImage),
                              !.parsed = @ \cup {px.k}, !.pc = "validate"]
    /\ PxUnchanged

\* lines 38-41: the validation of the parsed record and the early return
PX_Validate ==
    /\ px.pc = "validate"
    /\ \E result \in ValidationResults(px.data) :
         LET ran == [px EXCEPT !.validated = Append(@, px.k)] IN
         px' = IF Truthy(result) \/ result.kind = "raised"
               THEN [ran EXCEPT !.response = result, !.pc = "done"]
               ELSE [ran EXCEPT !.k = @ + 1, !.pc = "record"]
    /\ PxUnchanged

PX_Return ==
    /\ px.pc = "done"
    /\ px' = PxIdle
    /\ PxUnchanged

NextStream ==
    \/ PX_Receive
    \/ PX_Record
    \/ PX_Validate
    \/ PX_Return

InitHV ==
    /\ store = EmptyTable
    /\ DISCORD_URL = TRUE
    /\ SLACK_URL = TRUE
    /\ w = [i \in Invocations |-> IdleInvocation]
    /\ hv \in {HvIdleWith(c) : c \in HvConfigs}
    /\ bedrock = BedrockIdle
    /\ px = PxIdle
    /\ rd = RdIdle
    /\ lu = LuIdle

NextHV ==
    \/ HV_Start
    \/ HV_ResolveUrl
    \/ HV_Stabilize
    \/ HV_Check
    \/ HV_Telemetry
    \/ HV_Probe
    \/ HV_Sleep
    \/ HV_Report
    \/ HV_Return

SpecHV == InitHV /\ [][NextHV]_vars

\* both handlers on unrecognized input: the writer receives events of other
\* detail-types only, the validator runs as above
NextIntake ==
    \/ W_ReceiveFrom(1, OtherEvents)
    \/ W_Return(1)
    \/ NextHV

SpecIntake == InitHV /\ [][NextIntake]_vars

----------------------------------------------------------------------------
(* The writer, one event at a time *)

Init ==
    /\ store = EmptyTable
    /\ DISCORD_URL \in BOOLEAN
    /\ SLACK_URL \in BOOLEAN
    /\ w = [i \in Invocations |-> IdleInvocation]
    /\ hv = HvIdle
    /\ bedrock = BedrockIdle
    /\ px = PxIdle
    /\ rd = RdIdle
    /\ lu = LuIdle

Next == WriterStep(1)

Spec == Init /\ [][Next]_vars

----------------------------------------------------------------------------
(* The other functions, each under a specification of its own *)

\* nothing in progress, an empty table
InitQuiet ==
    /\ store = EmptyTable
    /\ DISCORD_URL = TRUE
    /\ SLACK_URL = TRUE
    /\ w = [i \in Invocations |-> IdleInvocation]
    /\ hv = HvIdle
    /\ bedrock = BedrockIdle
    /\ px = PxIdle
    /\ rd = RdIdle
    /\ lu = LuIdle

\* get_bedrock_solution, call after call
SpecAdvisor == InitQuiet /\ [][NextAdvisor]_vars

\* the health validator's handler, batch after batch
SpecStream == InitQuiet /\ [][NextStream]_vars

\* records as the table can hold them: written by update_simple_status, with
\* the topology fields of the full write, and the pointer
StatusRecord(id) ==
    [pipelineID |-> id, currentStage |-> "Build", status |-> "STARTED",
     errorMessage |-> "", logUrl |-> <<>>, aiSolution |-> ""]
TopologyRecord(id) ==
    [pipelineID |-> id, currentStage |-> "Source", status |-> "STARTED",
     errorMessage |-> "", logUrl |-> <<>>, totalStages |-> 3,
     stageList |-> <<"Source", "Build", "Deploy">>]
PointerRecord(id) ==
    [pipelineID |-> LATEST_EXECUTION, latestExecutionId |-> id, lastStartTime |-> 1]

ReaderTables ==
    { [k \in Keys |-> IF k = <<"e1">> THEN a
                      ELSE IF k = <<"e2">> THEN b
                      ELSE c]
      : a \in {NoItem, StatusRecord(<<"e1">>), TopologyRecord(<<"e1">>)},
        b \in {NoItem, StatusRecord(<<"e2">>)},
        c \in {NoItem, PointerRecord(<<"e1">>)} }

InitReader ==
    /\ store \in ReaderTables
    /\ DISCORD_URL = TRUE
    /\ SLACK_URL = TRUE
    /\ w = [i \in Invocations |-> IdleInvocation]
    /\ hv = HvIdle
    /\ bedrock = BedrockIdle
    /\ px = PxIdle
    /\ rd = RdIdle
    /\ lu = LuIdle

\* the reader, request after request, over a table it finds
SpecReader == InitReader /\ [][NextReader]_vars

\* generate_log_url called on its own, and by the writer for the events of
\* one execution
EventsOf(id) == {e \in Events : e.id = id}

NextLogUrl ==
    \/ L_Call
    \/ L_Return
    \/ W_ReceiveFrom(1, EventsOf(<<"e1">>))
    \/ W_Advisor(1)
    \/ W_GetPipeline(1)
    \/ W_PointerWrite(1)
    \/ W_FullWrite(1)
    \/ W_Fallback(1)
    \/ W_StatusOnly(1)
    \/ W_Notify(1)
    \/ W_Return(1)

SpecLogUrl == InitQuiet /\ [][NextLogUrl]_vars

\* the writer on the events of one execution, with every kind of advisor
\* result
NextFailure ==
    \/ W_ReceiveFrom(1, EventsOf(<<"e1">>))
    \/ W_AdvisorFrom(1, AdvisorResults)
    \/ W_GetPipeline(1)
    \/ W_PointerWrite(1)
    \/ W_FullWrite(1)
    \/ W_Fallback(1)
    \/ W_StatusOnly(1)
    \/ W_Notify(1)
    \/ W_Return(1)

InitFailure ==
    /\ store = EmptyTable
    /\ DISCORD_URL \in BOOLEAN
    /\ SLACK_URL \in BOOLEAN
    /\ w = [i \in Invocations |-> IdleInvocation]
    /\ hv = HvIdle
    /\ bedrock = BedrockIdle
    /\ px = PxIdle
    /\ rd = RdIdle
    /\ lu = LuIdle

SpecFailure == InitFailure /\ [][NextFailure]_vars

\* the first events of executions: stage-level Source/STARTED
FirstEvents == {e \in StageEvents : e.stage = "Source" /\ e.state = "STARTED"}

\* the execution whose events invocation i receives
ExecutionOf(i) == IF i = 1 THEN <<"e1">> ELSE <<"e2">>

\* one invocation of the writer on the first event of an execution
FirstEventStep(i, events) ==
    \/ W_ReceiveFrom(i, events)
    \/ W_GetPipeline(i)
    \/ W_PointerWrite(i)
    \/ W_FullWrite(i)
    \/ W_Fallback(i)
    \/ W_Notify(i)
    \/ W_Return(i)

\* two writer invocations that run at the same time, each on the first event
\* of an execution of its own, their store operations interleaved
NextConcurrent ==
    \E i \in Invocations :
        FirstEventStep(i, {e \in FirstEvents : e.id = ExecutionOf(i)})

SpecConcurrent == InitQuiet /\ [][NextConcurrent]_vars

\* one writer invocation after the other on first events, and a reader that
\* looks up an id at any time
NextPointer ==
    \/ FirstEventStep(1, FirstEvents)
    \/ NextReader

SpecPointer == InitQuiet /\ [][NextPointer]_vars

----------------------------------------------------------------------------
(* Properties of the writer *)

Done(i) == w[i].pc = "done"

StageLevel(e, stage, state) ==
    e.dtype = STAGE_CHANGE /\ e.stage = stage /\ e.state = state

Has(item, a) == a \in DOMAIN item

\* every update_item call of the invocation was answered by an available table
TableAvailable(l) == \A n \in 1..Len(l.calls) : l.calls[n].result # "unavailable"

\* C1: after a stage-level Source/STARTED event for an execution with no
\* stored record, whose topology fetch returned, the table holds the record
\* with stageList = the fetched list and totalStages = its length, and the
\* pointer names the execution.
C1_FirstEventStoresTopology ==
    \A i \in Invocations :
        ( /\ Done(i)
          /\ StageLevel(w[i].event, "Source", "STARTED")
          /\ ~w[i].known
          /\ w[i].stage_list # <<>>
          /\ TableAvailable(w[i]) )
        => LET item == store[w[i].event.id]
               ptr == store[LATEST_EXECUTION]
           IN  /\ Has(item, "stageList") /\ Has(item, "totalStages")
               /\ item.stageList = w[i].stage_list
               /\ item.stageList # <<>>
               /\ item.totalStages = Len(item.stageList)
               /\ Has(ptr, "latestExecutionId")
               /\ ptr.latestExecutionId = w[i].event.id

\* the table holds no topology field anywhere: the full write, the only one
\* that names totalStages and stageList, is rejected every time (see C1)
TopologyNeverStored ==
    \A k \in Keys : ~Has(store[k], "stageList") /\ ~Has(store[k], "totalStages")

SameAttribute(a, old, new) ==
    /\ Has(new, a) = Has(old, a)
    /\ Has(old, a) => new[a] = old[a]

C4_StageFailedSuppressed ==
    \A i \in Invocations :
        ( w[i].event.dtype = STAGE_CHANGE /\ w[i].event.state = "FAILED" )
        => /\ Done(i)
           /\ w[i].response = Resp(200, "")
           /\ w[i].calls = <<>>
           /\ w[i].advisor = 0
           /\ w[i].message = NoMessage
           /\ w[i].posts = 0

\* a stage-level FAILED event was acknowledged while the execution's record
\* shows another status
C4_Witness ==
    \E i \in Invocations :
        /\ Done(i)
        /\ w[i].event.dtype = STAGE_CHANGE /\ w[i].event.state = "FAILED"
        /\ w[i].known
        /\ store[w[i].event.id].status = "STARTED"
        /\ store[w[i].event.id].currentStage = w[i].event.stage

\* C5: an action-level event whose state is not FAILED ends the handler at
\* once with statusCode 200, with no update_item call and no notification;
\* an action-level FAILED event is accepted and makes the update-only write,
\* which, taken by the table, leaves the record FAILED at the event's stage.
C5_ActionFilter ==
    \A i \in Invocations :
        w[i].event.dtype = ACTION_CHANGE
        => /\ w[i].event.state # "FAILED"
              => /\ Done(i)
                 /\ w[i].response = Resp(200, "")
                 /\ w[i].calls = <<>>
                 /\ w[i].advisor = 0
                 /\ w[i].message = NoMessage
                 /\ w[i].posts = 0
           /\ (w[i].event.state = "FAILED" /\ Done(i))
              => /\ Len(w[i].calls) = 1
                 /\ w[i].calls[1].site = "simple"
                 /\ w[i].calls[1].result = "ok"
                    => /\ store[w[i].event.id].status = "FAILED"
                       /\ store[w[i].event.id].currentStage = w[i].event.stage
                       /\ w[i].response = Resp(200, "")

\* an action-level SUCCEEDED event was acknowledged without a write, over a
\* record that an earlier action-level FAILED event had written
C5_Witness ==
    \E i \in Invocations :
        /\ Done(i)
        /\ w[i].event.dtype = ACTION_CHANGE /\ w[i].event.state = "SUCCEEDED"
        /\ w[i].known
        /\ store[w[i].event.id].status = "FAILED"
        /\ store[w[i].event.id].errorMessage = "COMMAND_EXECUTION_ERROR"

\* C6 as stated: a store write that raises reaches the top-level handler,
\* whose response carries a 500-class status code, and no further write is
\* made.
C6_WriteFailureGives500 ==
    \A i \in Invocations :
        ( Done(i) /\ \E n \in 1..Len(w[i].calls) : w[i].calls[n].result # "ok" )
        => /\ w[i].response.kind = "dict"
           /\ w[i].response.statusCode >= 500
           /\ \A n \in 1..Len(w[i].calls) :
                  w[i].calls[n].result # "ok" => n = Len(w[i].calls)

----------------------------------------------------------------------------
(* Properties of the unrecognized-input path and of the health validator *)

\* C7 as stated: an unrecognized inbound event is a no-op that is
\* acknowledged: in the writer (another detail-type) no write and no
\* notification, in the health validator (no pipeline data parsed) no
\* notification and no probe; the answer is a 200-class acknowledgment, never
\* an error status, never an exception.
C7_UnrecognizedAcknowledged ==
    /\ \A i \in Invocations :
         ( w[i].event.dtype \notin {"none", STAGE_CHANGE, ACTION_CHANGE} )
         => /\ Done(i)
            /\ w[i].calls = <<>> /\ w[i].advisor = 0 /\ w[i].posts = 0
            /\ w[i].response \in {RespNone, Resp(200, "")}
    /\ ( hv.pc = "done" /\ hv.data = NoData )
       => /\ hv.notes = 0 /\ hv.probes = {}
          /\ hv.response.kind = "dict"
          /\ hv.response.statusCode = 200

\* the run reached the polling loop and reported a verdict
Reported == hv.pc = "done" /\ hv.response.kind = "dict" /\ hv.response.status # ""

\* C8: a run that reached the loop ends in success (200, 'success') exactly
\* when some iteration begun before MAX_WAIT had elapsed probed and got code
\* 200; when no probe of the run got 200 the verdict is failure (500,
\* 'failed').
C8_SuccessIffProbe200 ==
    Reported =>
      LET got200 == \E p \in hv.probes :
                       /\ p.result = [kind |-> "response", code |-> 200]
                       /\ p.began < hv.cfg.MAX_WAIT
          none200 == \A p \in hv.probes : p.result # [kind |-> "response", code |-> 200]
      IN  /\ (hv.response.statusCode = 200 /\ hv.response.status = "success") <=> got200
          /\ none200 => (hv.response.statusCode = 500 /\ hv.response.status = "failed")
          /\ hv.response.status \in {"success", "failed"}

\* a success verdict after an earlier iteration's probe had failed
C8_Witness ==
    /\ Reported
    /\ hv.response.status = "success"
    /\ \E p \in hv.probes : p.result.code # 200 /\ p.began = 0
    /\ \E p \in hv.probes : p.result.code = 200 /\ p.began > 0

\* C9: an iteration begins (telemetry query, then probe) only from the
\* deadline check and only while the time elapsed since the loop's start is
\* below MAX_WAIT; every sleep between iterations is followed by that check;
\* the stabilization delay of 30 precedes the loop's start time and every
\* probe.
C9_DeadlineAtTop ==
    [][ /\ hv'.pc = "telemetry"
           => /\ hv.pc = "check"
              /\ hv.now - hv.start_time < hv.cfg.MAX_WAIT
              /\ hv'.now = hv.now
        /\ hv'.pc = "probe" => hv.pc = "telemetry" /\ hv.began < hv.cfg.MAX_WAIT
        /\ hv.pc = "sleep" => hv'.pc = "check" /\ hv'.now = hv.now + hv.cfg.INTERVAL
        /\ hv.pc = "stabilize"
           => /\ hv'.pc = "check"
              /\ hv'.now = hv.now + STABILIZATION_DELAY
              /\ hv'.start_time = hv'.now
              /\ hv'.probes = {}
        /\ (hv'.pc = "check" /\ hv.pc # "sleep") => hv.pc = "stabilize"
        /\ hv'.probes # hv.probes /\ hv'.probes # {}
           => /\ hv.pc = "probe"
              /\ hv.start_time >= STABILIZATION_DELAY
              /\ hv.now >= hv.start_time
      ]_vars

\* the loop ran three iterations and left at the deadline check
C9_Witness ==
    /\ hv.pc = "report"
    /\ ~hv.success
    /\ hv.now - hv.start_time >= hv.cfg.MAX_WAIT
    /\ hv.cfg.MAX_WAIT > 0
    /\ Cardinality({p.began : p \in hv.probes}) >= 3

\* C10 as stated: a failure verdict always carries a reason, whatever
\* MAX_WAIT and INTERVAL are, also when the loop body never ran.
C10_FailureHasReason ==
    ( Reported /\ hv.response.status = "failed" )
    => /\ hv.response.text # ""
       /\ hv.response.text = hv.reason

----------------------------------------------------------------------------
(* The amended statements *)

Failed(l, n) == l.calls[n].result # "ok"

\* C6, amended: a failing write of update_simple_status reaches the
\* top-level handler, which answers statusCode 200 with an error body; it is
\* the invocation's last write and no notification follows. A failing
\* pointer or full-record write is caught on the first-event path and
\* followed by the single update-only write. No call site is called twice.
C6_WriteFailureGives200 ==
    \A i \in Invocations :
        ( Done(i) /\ \E n \in 1..Len(w[i].calls) : Failed(w[i], n) )
        => LET l == w[i]
               last == Len(l.calls)
           IN  /\ \A m, n \in 1..last : l.calls[m].site = l.calls[n].site => m = n
               /\ \A n \in 1..last :
                      (Failed(l, n) /\ l.calls[n].site # "simple")
                      => /\ n = last - 1
                         /\ l.calls[last].site = "simple"
                         /\ StageLevel(l.event, "Source", "STARTED")
               /\ IF Failed(l, last)
                  THEN /\ l.calls[last].site = "simple"
                       /\ l.response = Resp(200, "Error")
                       /\ l.message = NoMessage /\ l.posts = 0
                       /\ ~l.known => store[l.event.id] = NoItem
                  ELSE l.response = Resp(200, "")

\* a Build/STARTED event whose write the table refused, answered with the
\* error body
C6_Witness ==
    \E i \in Invocations :
        /\ Done(i)
        /\ StageLevel(w[i].event, "Build", "STARTED")
        /\ w[i].calls = <<[site |-> "simple", result |-> "unavailable"]>>
        /\ w[i].response = Resp(200, "Error")
        /\ w[i].known
        /\ store[w[i].event.id].currentStage = "Source"

\* C7, amended: an unrecognized inbound event is a no-op. The writer, on
\* another detail-type, makes no write, no advisor call and no notification
\* and returns None. The health validator, with no pipeline data parsed,
\* waits for nothing, notifies nobody, probes nothing and returns statusCode
\* 400 'Invalid event format'. Neither raises.
C7_UnrecognizedIsNoOp ==
    /\ \A i \in Invocations :
         ( w[i].event.dtype \notin {"none", STAGE_CHANGE, ACTION_CHANGE} )
         => /\ Done(i)
            /\ w[i].calls = <<>> /\ w[i].advisor = 0
            /\ w[i].message = NoMessage /\ w[i].posts = 0
            /\ w[i].response = RespNone
            /\ store = EmptyTable
    /\ ( hv.pc = "done" /\ hv.data = NoData )
       => /\ hv.notes = 0 /\ hv.probes = {} /\ hv.now = 0
          /\ hv.response = HvResp(400, "", "Invalid event format")

\* both handlers have answered an unrecognized input
C7_Witness ==
    /\ Done(1) /\ w[1].event.dtype = OTHER_CHANGE
    /\ hv.pc = "done" /\ hv.data = NoData /\ hv.response.statusCode = 400

\* the reasons the run's last iteration can have recorded: the telemetry
\* error, the unhealthy color/status, or the failure of that iteration's probe
LastIterationReasons ==
    IF hv.telemetry # NoTelemetry /\ Get(hv.telemetry, "Color") = "null"
    THEN {"Error checking Beanstalk: AttributeError"}
    ELSE IF hv.telemetry # NoTelemetry /\ Get(hv.telemetry, "Color") # "Green"
    THEN {UnhealthyReason(hv.telemetry)}
    ELSE {ProbeReason(p.result) : p \in {q \in hv.probes : q.began = hv.began}}

\* C10, amended: when MAX_WAIT > 0 a failure verdict carries a non-empty
\* reason, the one the run's last iteration recorded; when MAX_WAIT <= 0 the
\* loop body never runs and the failure verdict's reason is the empty string.
C10_FailureReasonIsLast ==
    ( Reported /\ hv.response.status = "failed" )
    => /\ hv.response.text = hv.reason
       /\ hv.cfg.MAX_WAIT > 0
          => /\ hv.response.text # ""
             /\ hv.response.text \in LastIterationReasons
       /\ hv.cfg.MAX_WAIT <= 0 => hv.response.text = "" /\ hv.probes = {}

\* a failure verdict whose reason is the last iteration's unhealthy color,
\* after an earlier iteration's probe had failed for another reason
C10_Witness ==
    /\ Reported
    /\ hv.response.status = "failed"
    /\ hv.response.text = "Beanstalk not healthy: Red/Severe"
    /\ \E p \in hv.probes : p.result.kind = "HTTPError"

----------------------------------------------------------------------------
(* Properties of the diagnostic advisor *)

Throttled(x) ==
    x.op = "invoke" /\ x.result.kind = "error" /\ Contains(x.result.msg, THROTTLING)

IsSleep(x) == x.op = "sleep"

\* a call that has returned after three attempts, each failed by throttling
ThrottledThrice ==
    /\ bedrock.pc = "done"
    /\ Cardinality({n \in 1..Len(bedrock.trace) : Throttled(bedrock.trace[n])}) = 3

\* C11 as stated: after three consecutive rate-limit failures the function
\* has waited 2, then 4, then 8 after the respective attempts and returns a
\* non-empty fallback string.
C11_WaitsTwoFourEight ==
    ThrottledThrice =>
      LET sleeps == SelectSeq(bedrock.trace, IsSleep) IN
      /\ Len(sleeps) = 3
      /\ sleeps[1].seconds = 2 /\ sleeps[2].seconds = 4 /\ sleeps[3].seconds = 8
      /\ bedrock.result # <<>>

\* C11, amended: after three consecutive rate-limit failures the function has
\* waited 2 after the first and 4 after the second failed attempt and nothing
\* after the third, has made three service calls, and returns the non-empty
\* call-failed fallback string.
C11_WaitsTwoFour ==
    ThrottledThrice =>
      LET t == bedrock.trace
          sleeps == SelectSeq(t, IsSleep)
      IN
      /\ Len(t) = 5
      /\ Throttled(t[1]) /\ IsSleep(t[2]) /\ Throttled(t[3]) /\ IsSleep(t[4])
      /\ Throttled(t[5])
      /\ Len(sleeps) = 2
      /\ sleeps[1].seconds = 2 /\ sleeps[2].seconds = 4
      /\ bedrock.result # <<>>
      /\ bedrock.result[1] = CALL_FAILED
      /\ Contains(bedrock.result, THROTTLING)

\* a call that returned after a third throttled attempt
C11_Witness ==
    /\ ThrottledThrice
    /\ bedrock.attempt = 2
    /\ bedrock.result # <<>>

\* C18: one call makes at most 3 service calls; an attempt after the first
\* follows a wait of 2 * 2^attempt, which follows a rate-limit failure of
\* the attempt before; a failure of another class is the last thing the
\* call does, with no wait; a response ends the attempts.
C18_RetryPolicy ==
    LET t == bedrock.trace IN
    /\ Cardinality({n \in 1..Len(t) : t[n].op = "invoke"}) <= 3
    /\ \A n \in 1..Len(t) :
         /\ (t[n].op = "invoke" /\ n = 1) => t[n].attempt = 0
         /\ (t[n].op = "invoke" /\ n > 1)
            => /\ IsSleep(t[n - 1])
               /\ t[n].attempt = t[n - 1].attempt + 1
         /\ IsSleep(t[n])
            => /\ n > 1
               /\ Throttled(t[n - 1])
               /\ t[n - 1].attempt = t[n].attempt
               /\ t[n].seconds = 2 * (2 ^ t[n].attempt)
               /\ t[n].attempt < 2
         /\ (t[n].op = "invoke" /\ t[n].result.kind = "error" /\ ~Throttled(t[n]))
            => n = Len(t) /\ bedrock.pc = "done"
         /\ (t[n].op = "invoke" /\ t[n].result.kind = "response")
            => n = Len(t) /\ bedrock.pc \in {"parse", "done"}
         /\ (Throttled(t[n]) /\ n = Len(t)) => bedrock.pc \in {"sleep", "done"}

\* a call ended by an access error on the second attempt, after one wait
C18_Witness ==
    /\ bedrock.pc = "done"
    /\ Len(bedrock.trace) = 3
    /\ Throttled(bedrock.trace[1])
    /\ bedrock.trace[3].result.kind = "error"
    /\ Contains(bedrock.trace[3].result.msg, "AccessDeniedException")
    /\ bedrock.result = FALLBACK_ACCESS

----------------------------------------------------------------------------
(* Properties of the change-record parser and of the reader *)

WellFormed(item, a) ==
    IF a = "totalStages" THEN Tagged(item, a, "N") /\ IsInt(item[a].N)
    ELSE IF a = "stageList"
    THEN Tagged(item, a, "L") /\ \A n \in 1..Len(item[a].L) : "S" \in DOMAIN item[a].L[n]
    ELSE Tagged(item, a, "S")

\* C12 as stated: on every change record the parser, and the handler's
\* stream path that calls it, raise nothing; the parsed record holds exactly
\* the known fields that are well formed, a field with a missing or
\* unrecognized tag, a stageList with an element not tagged S and a
\* totalStages that is no integer being left out.
C12_ParseNeverRaises ==
    ( px.pc \in {"validate", "done"} /\ px.k <= Len(px.Records)
      /\ px.Records[px.k].eventName \in {"INSERT", "MODIFY"} )
    => LET item == px.Records[px.k].NewImage IN
       /\ px.k \in px.parsed
       /\ DOMAIN px.data =
            {a \in StringFields \cup {"totalStages", "stageList"} : WellFormed(item, a)}

\* C13 as stated: 400 when the pipelineId path parameter is missing (the map
\* lacks the key, is absent, or is null); otherwise 404 when the table holds
\* no record of the id, 200 with the stored record as the body when it does,
\* 500 when the lookup fails; the reader never raises.
ParameterMissing(event) ==
    \/ "pathParameters" \notin DOMAIN event
    \/ event.pathParameters = NULL
    \/ "pipelineId" \notin DOMAIN event.pathParameters

C13_ReaderResponse ==
    rd.pc = "done" =>
      /\ rd.response.kind = "dict"
      /\ rd.response.statusCode =
           ( IF ParameterMissing(rd.event) THEN 400
             ELSE IF rd.lookup = "failed" THEN 500
             ELSE IF store[rd.event.pathParameters.pipelineId] = NoItem THEN 404
             ELSE 200 )
      /\ rd.response.statusCode = 200
         => rd.response.body = store[rd.event.pathParameters.pipelineId]

----------------------------------------------------------------------------
(* Properties of the log reference, the pointer and the error fields *)

Reserved == {"/", ":", " "}

\* enc is s percent-encoded: nothing reserved is left, a slash has become
\* %2F, a colon %3A, a space +, and everything else is as it was
PercentEncoded(s, enc) ==
    /\ Len(enc) = Len(s)
    /\ \A n \in 1..Len(s) :
         /\ enc[n] \notin Reserved
         /\ s[n] \notin Reserved => enc[n] = s[n]
         /\ s[n] = "/" => enc[n] = "%2F"
         /\ s[n] = ":" => enc[n] = "%3A"
         /\ s[n] = " " => enc[n] = "+"

\* url is the console base, the encoded log group, then the encoded build id
LogUrlOf(url, group, build_id) ==
    /\ Len(url) = 3 + Len(group) + Len(build_id)
    /\ url[1] = CLOUDWATCH_CONSOLE_BASE /\ url[2] = "/"
    /\ PercentEncoded(group, SubSeq(url, 3, 2 + Len(group)))
    /\ url[3 + Len(group)] = "/log-stream/"
    /\ PercentEncoded(build_id, SubSeq(url, 4 + Len(group), Len(url)))

\* C14: generate_log_url(stageName, buildId) is the empty string unless
\* stageName is Build or Deploy and buildId is non-empty; for Build (Deploy)
\* with a non-empty buildId it is non-empty, built from the Build (Deploy)
\* log-group identifier followed by the build id, both percent-encoded.
\* Every record written for a Source-stage event has an empty logUrl.
C14_LogUrl ==
    /\ lu.pc = "done" =>
         /\ (lu.result = <<>>)
              <=> ~(lu.stage_name \in {"Build", "Deploy"} /\ lu.build_id # <<>>)
         /\ lu.stage_name \notin {"Build", "Deploy"} => lu.result = <<>>
         /\ (lu.stage_name = "Build" /\ lu.build_id # <<>>)
            => LogUrlOf(lu.result,
                        <<"/", "aws", "/", "codebuild", "/", "sample-app2-eb-build">>,
                        lu.build_id)
         /\ (lu.stage_name = "Deploy" /\ lu.build_id # <<>>)
            => LogUrlOf(lu.result,
                        <<"/", "aws", "/", "codebuild", "/", "deployer-project">>,
                        lu.build_id)
    /\ \A k \in ExecIds :
         (store[k] # NoItem /\ store[k].currentStage = "Source") => store[k].logUrl = <<>>
    /\ \A i \in Invocations :
         ( w[i].pc \in {"notify", "done"} /\ w[i].event.dtype # "none"
           /\ w[i].event.stage = "Source" /\ w[i].calls # <<>>
           /\ w[i].calls[Len(w[i].calls)].result = "ok" )
         => store[w[i].event.id].logUrl = <<>>

\* the Build log reference of a build id with a space and a slash, while the
\* table holds a record that a Source-stage event has overwritten
C14_Witness ==
    /\ lu.pc = "done"
    /\ lu.stage_name = "Build"
    /\ lu.build_id = <<"my", " ", "build", "/", "7">>
    /\ lu.result # <<>>
    /\ Done(1) /\ w[1].known
    /\ w[1].event.stage = "Source"
    /\ w[1].calls = <<[site |-> "simple", result |-> "ok"]>>
    /\ store[<<"e1">>].currentStage = "Source"

\* C15 as stated: whenever the writer has processed a stage-level
\* Source/STARTED event for E, whatever the topology fetch did, the pointer
\* holds latestExecutionId = E and lastStartTime = the event's time.
C15_PointerAlwaysOverwritten ==
    \A i \in Invocations :
        ( /\ Done(i)
          /\ StageLevel(w[i].event, "Source", "STARTED")
          /\ TableAvailable(w[i]) )
        => LET ptr == store[LATEST_EXECUTION] IN
           /\ Has(ptr, "latestExecutionId")
           /\ ptr.latestExecutionId = w[i].event.id
           /\ ptr.lastStartTime = w[i].event.time

\* the pointer changes in the pointer write of a Source/STARTED event only,
\* after the topology fetch has returned
PointerWrittenByFirstEventOnly ==
    [][ store'[LATEST_EXECUTION] # store[LATEST_EXECUTION]
        => \E i \in Invocations :
             /\ w[i].pc = "pointer"
             /\ StageLevel(w[i].event, "Source", "STARTED")
             /\ w[i].stage_list # <<>>
             /\ store'[LATEST_EXECUTION].latestExecutionId = w[i].event.id
             /\ store'[LATEST_EXECUTION].lastStartTime = w[i].event.time
      ]_vars

\* C16: in every reachable table, each execution record whose status is not
\* FAILED has an empty errorMessage.
C16_ErrorMessageOnlyWhenFailed ==
    \A k \in ExecIds :
        store[k] # NoItem
        => /\ Has(store[k], "status") /\ Has(store[k], "errorMessage")
           /\ store[k].status # "FAILED" => store[k].errorMessage = ""

\* a record written by a later event that is not FAILED, next to a FAILED
\* record that holds its error summary
C16_Witness ==
    \E i \in Invocations :
        /\ Done(i) /\ w[i].known
        /\ w[i].event.state = "SUCCEEDED"
        /\ w[i].calls = <<[site |-> "simple", result |-> "ok"]>>
        /\ store[w[i].event.id].status = "SUCCEEDED"
        /\ store[w[i].event.id].errorMessage = ""
        /\ \E k \in ExecIds :
             /\ store[k] # NoItem
             /\ store[k].status = "FAILED"
             /\ store[k].errorMessage = "COMMAND_EXECUTION_ERROR"

----------------------------------------------------------------------------
(* Properties of the health validator's iteration and of its configuration
   errors *)

\* C17: in an iteration, telemetry that is available with a color other than
\* green sends the loop to its sleep with no probe issued, no success and the
\* color/status as the reason; telemetry that is green or unavailable is
\* followed by the probe, and the probe step issues exactly one probe of
\* that iteration. (A Color that is no string, which the service never
\* returns, also gives no probe; its reason is the error's text.)
C17_TelemetryGatesProbe ==
    [][ /\ hv.pc = "telemetry"
           => LET t == hv'.telemetry
                  available == t # NoTelemetry
                  color == Get(t, "Color")
              IN
              /\ (available /\ color # "Green")
                 => /\ hv'.pc = "sleep"
                    /\ hv'.probes = hv.probes
                    /\ ~hv'.success
              /\ (available /\ color = "Red")
                 => hv'.reason = "Beanstalk not healthy: Red/Severe"
              /\ (available /\ color = "None")
                 => hv'.reason = "Beanstalk not healthy: Unknown/Info"
              /\ (~available \/ color = "Green")
                 => hv'.pc = "probe" /\ hv'.probes = hv.probes
        /\ hv.pc = "probe"
           => /\ hv'.pc \in {"sleep", "report"}
              /\ Cardinality(hv'.probes) = Cardinality(hv.probes) + 1
              /\ \A p \in hv'.probes \ hv.probes : p.began = hv.began
              /\ \A p \in hv.probes : p.began # hv.began
        /\ hv'.probes # hv.probes /\ hv'.probes # {}
           => /\ hv.pc = "probe"
              /\ hv.telemetry = NoTelemetry \/ Get(hv.telemetry, "Color") = "Green"
        /\ hv'.pc = "probe" => hv.pc = "telemetry"
        /\ hv'.pc = "telemetry" => hv.pc = "check"
      ]_vars

\* an iteration that found the environment red and issued no probe, after an
\* earlier iteration had probed
C17_Witness ==
    /\ hv.pc = "sleep"
    /\ hv.telemetry = [Color |-> "Red", HealthStatus |-> "Severe"]
    /\ hv.reason = "Beanstalk not healthy: Red/Severe"
    /\ hv.probes # {}
    /\ \A p \in hv.probes : p.began < hv.began

DeploySucceeded(d) ==
    d # NoData /\ Get(d, "currentStage") = "Deploy" /\ Get(d, "status") = "SUCCEEDED"

\* C19: a configuration error (no environment id and no name, or no check
\* URL configured or resolvable) is raised to the caller after one
\* notification call, before the stabilization delay, any telemetry query
\* and any probe; it occurs for a record with currentStage = Deploy and
\* status = SUCCEEDED only, and every other record (pipeline data that was
\* parsed) is skipped with statusCode 200 and no notification. A run that
\* goes on to the stabilization delay has both settings.
C19_ConfigErrorRaised ==
    LET configured == hv.cfg.BEANSTALK_ENV_ID \/ hv.cfg.BEANSTALK_ENV_NAME IN
    /\ (hv.pc = "done" /\ hv.response.kind = "raised")
       => /\ DeploySucceeded(hv.data)
          /\ ~configured \/ hv.cfg.CHECK_URL = ""
          /\ hv.notes = 1
          /\ hv.now = 0 /\ hv.start_time = 0
          /\ hv.telemetry = NoTelemetry /\ hv.probes = {}
    /\ (hv.pc = "done" /\ DeploySucceeded(hv.data) /\ (~configured \/ hv.cfg.CHECK_URL = ""))
       => hv.response.kind = "raised"
    /\ hv.pc \in {"stabilize", "check", "telemetry", "probe", "sleep", "report"}
       => configured /\ hv.cfg.CHECK_URL # "" /\ DeploySucceeded(hv.data)
    /\ (hv.pc = "done" /\ hv.data # NoData /\ ~DeploySucceeded(hv.data))
       => /\ hv.response.kind = "dict"
          /\ hv.response.statusCode = 200
          /\ hv.notes = 0 /\ hv.now = 0 /\ hv.probes = {}

\* the check URL could not be resolved for a succeeded Deploy: notified, then
\* raised
C19_Witness ==
    /\ hv.pc = "done"
    /\ hv.response = [kind |-> "raised", error |-> "ValueError: no CHECK_URL"]
    /\ hv.cfg.BEANSTALK_ENV_ID
    /\ hv.notes = 1
    /\ hv.now = 0

----------------------------------------------------------------------------
(* Properties of the writer's steps for a FAILED event *)

AcceptedFailed(e) == e.dtype = ACTION_CHANGE /\ e.state = "FAILED"

\* C20: for an accepted FAILED event the advisor has returned before the
\* write is made; the write stores the advisor's text as aiSolution together
\* with status FAILED and the error summary, or the fixed unknown-error
\* string when the event has none; a message is built and sent only after
\* the write has succeeded; when the write fails nothing is sent; whatever
\* the advisor returned (its fallback included) and whether or not the
\* webhook requests were delivered, the written record stays and the handler
\* returns statusCode 200.
C20_FailedEventOrder ==
    \A i \in Invocations :
        AcceptedFailed(w[i].event)
        => LET l == w[i]
               e == l.event
               summary == IF "external-execution-summary" \in DOMAIN e.result
                          THEN "COMMAND_EXECUTION_ERROR"
                          ELSE "Unknown error (no execution-summary)."
               written == l.calls = <<[site |-> "simple", result |-> "ok"]>>
           IN
           /\ l.pc = "advisor" => l.advisor = 0 /\ l.calls = <<>>
           /\ l.pc # "advisor"
              => /\ l.advisor = 1
                 /\ l.error_message = summary
                 /\ l.ai_solution \in AdvisorResults
           /\ l.calls # <<>> => Len(l.calls) = 1 /\ l.calls[1].site = "simple"
           /\ l.pc = "notify" => written
           /\ written
              => /\ store[e.id].status = "FAILED"
                 /\ store[e.id].currentStage = e.stage
                 /\ store[e.id].errorMessage = summary
                 /\ store[e.id].aiSolution = l.ai_solution
           /\ (l.message # NoMessage \/ l.posts > 0)
              => /\ written /\ Done(i)
                 /\ l.message.kind = "failure"
                 /\ l.message.reason = summary
                 /\ l.message.ai = l.ai_solution
           /\ (Done(i) /\ ~written)
              => /\ l.message = NoMessage /\ l.posts = 0
                 /\ l.response = Resp(200, "Error")
           /\ (Done(i) /\ written) => l.response = Resp(200, "")

\* a FAILED event without summary whose advisor call fell back and whose
\* webhook requests failed: the record is written all the same
C20_Witness ==
    \E i \in Invocations :
        /\ Done(i)
        /\ AcceptedFailed(w[i].event)
        /\ w[i].event.result = NoResult
        /\ w[i].ai_solution = ADVISOR_FALLBACK
        /\ w[i].posts = 2 /\ ~w[i].delivered
        /\ store[w[i].event.id].aiSolution = ADVISOR_FALLBACK
        /\ store[w[i].event.id].errorMessage = UNKNOWN_ERROR
        /\ w[i].response = Resp(200, "")

----------------------------------------------------------------------------
(* Properties of the degraded first-event path, of the change batch, of the
   pointer under interleaving, and of aiSolution *)

Configured == (IF DISCORD_URL THEN 1 ELSE 0) + (IF SLACK_URL THEN 1 ELSE 0)

\* C21: when get_pipeline raises for a Source/STARTED event of E nothing is
\* written and the event goes on to the update-only write; that write, taken
\* by the table, leaves record E with currentStage = Source, status =
\* STARTED and the (empty) log reference, sets neither totalStages nor
\* stageList and leaves the pointer alone; the notification follows and the
\* handler returns statusCode 200.
C21_FetchFailureDegrades ==
    [][ \A i \in Invocations :
          LET l == w[i]
              e == l.event
              E == e.id
          IN
          /\ (l.pc = "dispatch" /\ IsFirstEvent(l) /\ w'[i].pc = "fallback")
             => /\ store' = store
                /\ w'[i].calls = <<>>
                /\ w'[i].response = Pending
          /\ (l.pc = "fallback" /\ l.calls = <<>> /\ w'[i].pc # "fallback")
             => /\ StageLevel(e, "Source", "STARTED")
                /\ Len(w'[i].calls) = 1
                /\ w'[i].calls[1].site = "simple"
                /\ w'[i].calls[1].result = "ok"
                   => /\ w'[i].pc = "notify"
                      /\ store'[E].currentStage = "Source"
                      /\ store'[E].status = "STARTED"
                      /\ store'[E].logUrl = <<>>
                      /\ store'[E].errorMessage = ""
                      /\ SameAttribute("totalStages", store[E], store'[E])
                      /\ SameAttribute("stageList", store[E], store'[E])
                      /\ store'[LATEST_EXECUTION] = store[LATEST_EXECUTION]
          /\ ( l.pc = "notify" /\ StageLevel(e, "Source", "STARTED")
               /\ l.calls = <<[site |-> "simple", result |-> "ok"]>> )
             => /\ w'[i].pc = "done"
                /\ w'[i].response = Resp(200, "")
                /\ w'[i].message = [kind |-> "progress", id |-> E, stage |-> "Source",
                                    status |-> "STARTED"]
                /\ w'[i].posts = Configured
                /\ store' = store
      ]_vars

\* a Source/STARTED event whose topology fetch failed: the record is written
\* by the update-only write, both webhooks were called, the answer is 200
C21_Witness ==
    \E i \in Invocations :
        /\ Done(i)
        /\ StageLevel(w[i].event, "Source", "STARTED")
        /\ w[i].stage_list = <<>>
        /\ w[i].calls = <<[site |-> "simple", result |-> "ok"]>>
        /\ store[w[i].event.id].currentStage = "Source"
        /\ store[w[i].event.id].status = "STARTED"
        /\ ~Has(store[w[i].event.id], "stageList")
        /\ w[i].posts = 2
        /\ w[i].response = Resp(200, "")

\* the records of a batch that are INSERT or MODIFY, in batch order
RECURSIVE ToValidate(_, _)
ToValidate(records, n) ==
    IF n > Len(records) THEN <<>>
    ELSE IF records[n].eventName \in {"INSERT", "MODIFY"}
    THEN <<n>> \o ToValidate(records, n + 1)
    ELSE ToValidate(records, n + 1)

\* C22 as stated: when the handler has answered a batch, validation has run
\* for every INSERT and MODIFY record of the batch, in batch order, and for
\* no REMOVE record; 'Processed all records' is answered only then.
C22_EveryRecordValidated ==
    (px.pc = "done" /\ px.response.kind = "dict")
    => px.validated = ToValidate(px.Records, 1)

\* C23 as stated: whatever the order and the interleaving of the writer
\* invocations that process Source/STARTED events of different executions,
\* the pointer's lastStartTime is at least the time of every event whose
\* pointer write was made: the pointer names the latest start.
C23_PointerNamesLatest ==
    \A i \in Invocations :
        (\E n \in 1..Len(w[i].calls) : w[i].calls[n] = [site |-> "pointer", result |-> "ok"])
        => /\ Has(store[LATEST_EXECUTION], "lastStartTime")
           /\ store[LATEST_EXECUTION].lastStartTime >= w[i].event.time

\* C24 as stated: in every state, a pointer that names E comes with a record
\* keyed E, so that a lookup of the pointer's id is never answered 404.
C24_PointerHasRecord ==
    LET ptr == store[LATEST_EXECUTION] IN
    Has(ptr, "latestExecutionId")
    => /\ store[ptr.latestExecutionId] # NoItem
       /\ ( rd.pc = "done" /\ rd.lookup = "ok"
            /\ rd.pipelineId = ptr.latestExecutionId )
          => rd.response.statusCode # 404

\* C25: in every reachable table a record's aiSolution is non-empty only
\* when its status is FAILED; the write an invocation has made holds that
\* invocation's diagnostic text, which is empty unless its event is FAILED.
C25_AiSolutionOnlyWhenFailed ==
    /\ \A k \in ExecIds :
         store[k] # NoItem
         => /\ Has(store[k], "aiSolution") /\ Has(store[k], "status")
            /\ store[k].aiSolution # "" => store[k].status = "FAILED"
    /\ \A i \in Invocations :
         ( w[i].pc \in {"notify", "done"} /\ w[i].calls # <<>>
           /\ w[i].calls[Len(w[i].calls)].result = "ok" )
         => /\ Has(store[w[i].event.id], "aiSolution")
            /\ store[w[i].event.id].status = w[i].status
            /\ store[w[i].event.id].aiSolution = w[i].ai_solution
            /\ w[i].ai_solution # "" => w[i].status = "FAILED"

\* a Source/STARTED event written over the record of an execution while the
\* other execution's record is FAILED with its diagnostic text
C25_Witness ==
    \E i \in Invocations :
        /\ Done(i) /\ w[i].known
        /\ StageLevel(w[i].event, "Source", "STARTED")
        /\ w[i].calls[Len(w[i].calls)] = [site |-> "simple", result |-> "ok"]
        /\ Len(w[i].calls) = 3
        /\ store[w[i].event.id].aiSolution = ""
        /\ \E k \in ExecIds :
             /\ store[k] # NoItem
             /\ store[k].status = "FAILED"
             /\ store[k].aiSolution \in AdvisorTexts

====
